---- MODULE Spec2Model ----
(***************************************************************************)
(* Model of package yellow (src/yellow.go): one Stopwatch created by       *)
(* Deadline, the one-shot timer set by time.AfterFunc, the goroutine that  *)
(* runs the TimedOut callback, and the caller that calls Done().           *)
(*                                                                         *)
(* Time is a discrete monotonic clock.  Deadline and Done are split at     *)
(* the points where the clock may advance or the timer goroutine may run   *)
(* between two of their statements: after time.Now() (line 90) and after   *)
(* the decision of Done (lines 67, 71).  Timer.Stop is atomic.             *)
(***************************************************************************)
EXTENDS Integers, Sequences, FiniteSets, TLC

\* ---------------------------------------------------------------- bounds
MaxTime == 4
MaxDone == 3

\* durations handed to Deadline (time.Duration is signed)
Durations == {-1, 0, 1, 2}

\* the handler implementations of the package, plus a plain Handler and a
\* plain TimedOutHandler as a caller would write them
Handlers == {"completedOnly", "timedOut", "funcHandler", "logHandler", "logWarningHandler"}

VARIABLES
  now,              \* the monotonic clock
  pc,               \* position of the caller
  reqD, reqH,       \* arguments of the Deadline call
  sw,               \* the *Stopwatch returned by Deadline
  timer,            \* state of the runtime timer behind sw.t
  when,             \* the time at which the timer is due
  cb,               \* the goroutine running func() { h.TimedOut(rv.started) }
  timersScheduled,  \* number of time.AfterFunc calls made
  doneCalls,        \* number of Done() calls begun
  dones,            \* per Done() call: the time of its decision and the decision
  calls,            \* handler methods invoked, in order
  effects           \* what the handler bodies did (wrapped function run, log lines)

vars == <<now, pc, reqD, reqH, sw, timer, when, cb, timersScheduled,
          doneCalls, dones, calls, effects>>

\* ------------------------------------------------------------ the handlers

\* handler.(TimedOutHandler): the method set of the handler's type
HasTimedOutAlways(h) == TRUE
HasTimedOutNever(h) == FALSE
HasTimedOut(h) == h \in {"timedOut", "logWarningHandler"}

\* the body of Completed of each handler type
CompletedBodyDropsFunc(h, t) ==
  CASE h = "logHandler"        -> << [what |-> "Finally finished: ", t |-> t] >>
    [] h = "logWarningHandler" -> << [what |-> "Finally finished: ", t |-> t] >>
    [] OTHER                   -> << >>
CompletedBody(h, t) ==
  CASE h = "funcHandler"       -> << [what |-> "f", t |-> t] >>
    [] h = "logHandler"        -> << [what |-> "Finally finished: ", t |-> t] >>
    [] h = "logWarningHandler" -> << [what |-> "Finally finished: ", t |-> t] >>
    [] OTHER                   -> << >>

\* the body of TimedOut of each handler type that has one
TimedOutBodySilent(h, t) == << >>
TimedOutBody(h, t) ==
  CASE h = "logWarningHandler" -> << [what |-> "Taking too long: ", t |-> t] >>
    [] OTHER                   -> << >>

\* ---------------------------------------------------------- the Stopwatch

\* (*Stopwatch)(nil)
NilStopwatch == [nil |-> TRUE, handler |-> "none", started |-> 0, d |-> 0, t |-> "nil"]

\* Deadline's test d == 0
TrackingDisabledNegative(d) == d < 0
TrackingDisabledNonPositive(d) == d <= 0
TrackingDisabled(d) == d = 0

\* &Stopwatch{handler, time.Now(), d, nil}
NewStopwatch(h, d, t) == [nil |-> FALSE, handler |-> h, started |-> t, d |-> d, t |-> "nil"]

\* the time at which time.AfterFunc(d, f) makes f due
WhenImmediate(d, t) == t
When(d, t) == IF d <= 0 THEN t ELSE t + d

\* time.Since(d.started) > d.d
SinceExceedsOrEqual(s, t) == t - s.started >= s.d
SinceExceeds(s, t) == t - s.started > s.d

\* d.t.Stop(): true iff the call stops a timer that was still pending
StopInverted(tm) == tm # "pending"
StopAlwaysSucceeds(tm) == TRUE
Stop(tm) == tm = "pending"

\* the argument handed to Completed and to TimedOut
StartedNow(s, t) == t
StartedWhenDue(s, t) == s.started + s.d
Started(s, t) == s.started

\* DeadlineLog and DeadlineLogWarn hand Deadline these handlers
DeadlineLogHandler == "logHandler"
DeadlineLogWarnHandler == "logWarningHandler"

\* the callback goroutine may run h.TimedOut whatever the caller has done
CallbackRunnableBeforeDone(c, n) == c = "spawned" /\ n = 0
CallbackRunnable(c, n) == c = "spawned"

\* -------------------------------------------------------------------- Init
Init ==
  /\ now = 0
  /\ pc = "start"
  /\ reqD = 0
  /\ reqH = "none"
  /\ sw = NilStopwatch
  /\ timer = "none"
  /\ when = 0
  /\ cb = "none"
  /\ timersScheduled = 0
  /\ doneCalls = 0
  /\ dones = << >>
  /\ calls = << >>
  /\ effects = << >>

\* ----------------------------------------------------------------- actions

\* the clock advances; it is followed up to MaxTime, and beyond that up to
\* the time at which a pending timer is due
Tick ==
  /\ now < MaxTime \/ (timer = "pending" /\ now < when)
  /\ now' = now + 1
  /\ UNCHANGED <<pc, reqD, reqH, sw, timer, when, cb, timersScheduled,
                 doneCalls, dones, calls, effects>>

\* Deadline(d, handler) up to the type assertion: returns nil for d == 0,
\* else builds the Stopwatch with started = time.Now(); returns it at once
\* when the handler has no TimedOut
Deadline ==
  /\ pc = "start"
  /\ \E d \in Durations, h \in Handlers :
       /\ reqD' = d
       /\ reqH' = h
       /\ IF TrackingDisabled(d)
            THEN /\ sw' = NilStopwatch
                 /\ pc' = "running"
            ELSE /\ sw' = NewStopwatch(h, d, now)
                 /\ pc' = IF HasTimedOut(h) THEN "arming" ELSE "running"
  /\ UNCHANGED <<now, timer, when, cb, timersScheduled, doneCalls, dones, calls, effects>>

\* rv.t = time.AfterFunc(d, func() { h.TimedOut(rv.started) }); return rv
DeadlineArm ==
  /\ pc = "arming"
  /\ sw' = [sw EXCEPT !.t = "timer"]
  /\ timer' = "pending"
  /\ when' = When(sw.d, now)
  /\ timersScheduled' = timersScheduled + 1
  /\ pc' = "running"
  /\ UNCHANGED <<now, reqD, reqH, cb, doneCalls, dones, calls, effects>>

\* the runtime finds the timer due: it leaves the timer heap and its
\* function is started in its own goroutine
TimerFire ==
  /\ timer = "pending"
  /\ now >= when
  /\ timer' = "fired"
  /\ cb' = "spawned"
  /\ UNCHANGED <<now, pc, reqD, reqH, sw, when, timersScheduled, doneCalls, dones, calls, effects>>

\* the goroutine calls h.TimedOut(rv.started)
TimedOutCallAlsoCompletes ==
  /\ CallbackRunnable(cb, doneCalls)
  /\ calls' = calls \o << [m |-> "TimedOut", t |-> Started(sw, now), at |-> now,
                            ctx |-> "timer", done |-> 0],
                          [m |-> "Completed", t |-> Started(sw, now), at |-> now,
                            ctx |-> "timer", done |-> 0] >>
  /\ effects' = effects \o TimedOutBody(sw.handler, Started(sw, now))
  /\ cb' = "inTimedOut"
  /\ UNCHANGED <<now, pc, reqD, reqH, sw, timer, when, timersScheduled, doneCalls, dones>>
TimedOutCall ==
  /\ CallbackRunnable(cb, doneCalls)
  /\ calls' = Append(calls, [m |-> "TimedOut", t |-> Started(sw, now), at |-> now,
                             ctx |-> "timer", done |-> 0])
  /\ effects' = effects \o TimedOutBody(sw.handler, Started(sw, now))
  /\ cb' = "inTimedOut"
  /\ UNCHANGED <<now, pc, reqD, reqH, sw, timer, when, timersScheduled, doneCalls, dones>>

\* h.TimedOut returns and the goroutine ends
TimedOutReturn ==
  /\ cb = "inTimedOut"
  /\ cb' = "returned"
  /\ UNCHANGED <<now, pc, reqD, reqH, sw, timer, when, timersScheduled, doneCalls, dones, calls, effects>>

\* Done() up to its decision: nil receiver, time.Since(d.started) > d.d on
\* the path without timer, !d.t.Stop() on the path with timer
DoneBegin ==
  /\ pc = "running"
  /\ doneCalls < MaxDone
  /\ doneCalls' = doneCalls + 1
  /\ IF sw.nil
       THEN /\ dones' = Append(dones, [at |-> now, complete |-> FALSE, fired |-> FALSE])
            /\ pc' = "running"
            /\ UNCHANGED timer
       ELSE IF sw.t = "nil"
         THEN /\ dones' = Append(dones, [at |-> now, complete |-> SinceExceeds(sw, now),
                                         fired |-> FALSE])
              /\ pc' = IF SinceExceeds(sw, now) THEN "completing" ELSE "running"
              /\ UNCHANGED timer
         ELSE /\ dones' = Append(dones, [at |-> now, complete |-> ~Stop(timer),
                                         fired |-> timer = "fired"])
              /\ pc' = IF ~Stop(timer) THEN "completing" ELSE "running"
              /\ timer' = IF Stop(timer) THEN "stopped" ELSE timer
  /\ UNCHANGED <<now, reqD, reqH, sw, when, cb, timersScheduled, calls, effects>>

\* d.handler.Completed(d.started), then Done returns
DoneCompletedWaitsForTimedOut ==
  /\ pc = "completing"
  /\ cb \notin {"spawned", "inTimedOut"}
  /\ calls' = Append(calls, [m |-> "Completed", t |-> Started(sw, now), at |-> now,
                             ctx |-> "caller", done |-> doneCalls])
  /\ effects' = effects \o CompletedBody(sw.handler, Started(sw, now))
  /\ pc' = "running"
  /\ UNCHANGED <<now, reqD, reqH, sw, timer, when, cb, timersScheduled, doneCalls, dones>>
DoneCompleted ==
  /\ pc = "completing"
  /\ calls' = Append(calls, [m |-> "Completed", t |-> Started(sw, now), at |-> now,
                             ctx |-> "caller", done |-> doneCalls])
  /\ effects' = effects \o CompletedBody(sw.handler, Started(sw, now))
  /\ pc' = "running"
  /\ UNCHANGED <<now, reqD, reqH, sw, timer, when, cb, timersScheduled, doneCalls, dones>>

Next ==
  \/ Tick
  \/ Deadline
  \/ DeadlineArm
  \/ TimerFire
  \/ TimedOutCall
  \/ TimedOutReturn
  \/ DoneBegin
  \/ DoneCompleted

Spec == Init /\ [][Next]_vars

\* The clock advances, the runtime fires a timer that is due and schedules
\* the goroutine it starts, and the handler's Completed returns.  Nothing
\* makes the caller call Done(), and nothing makes TimedOut return.
FairSpec ==
  /\ Init /\ [][Next]_vars
  /\ WF_vars(Tick)
  /\ WF_vars(TimerFire)
  /\ WF_vars(TimedOutCall)
  /\ WF_vars(DoneCompleted)

\* ------------------------------------------------------------- vocabulary

\* the calls of method m, as indices into calls
CallsOf(m) == {i \in 1..Len(calls) : calls[i].m = m}

\* the Completed calls made by the k-th Done()
CompletedBy(k) == {i \in CallsOf("Completed") : calls[i].done = k}

\* the k-th Done() has returned
Returned(k) == k < doneCalls \/ (k = doneCalls /\ pc = "running")

\* Deadline has returned
Constructed == pc \in {"running", "completing"}

TypeOK ==
  /\ now \in Nat
  /\ (timer = "pending" => now <= when \/ now <= MaxTime)
  /\ pc \in {"start", "arming", "running", "completing"}
  /\ timer \in {"none", "pending", "fired", "stopped"}
  /\ cb \in {"none", "spawned", "inTimedOut", "returned"}
  /\ doneCalls = Len(dones)

\* ------------------------------------------------------------------ claims

\* the handler types whose method set holds TimedOut (src/yellow.go:121)
WithTimedOut == {"timedOut", "logWarningHandler"}

\* time elapsed since the Stopwatch started when the k-th Done() decided
ElapsedAt(k) == dones[k].at - sw.started

\* C1: for d == 0 and any handler, Deadline returns the nil Stopwatch and
\* schedules no timer, and no number of Done() calls on it invokes
\* Completed or TimedOut.
C1_ZeroDurationIsSilent ==
  (pc # "start" /\ reqD = 0) =>
     /\ sw.nil
     /\ timersScheduled = 0
     /\ timer = "none"
     /\ cb = "none"
     /\ calls = << >>
     /\ effects = << >>

C1_Witness ==
  /\ reqD = 0
  /\ reqH \in WithTimedOut
  /\ doneCalls >= 2
  /\ pc = "running"
  /\ now > 0

\* C2: for d > 0 and a handler without TimedOut, a Done() call invokes
\* Completed exactly once, with the start timestamp, when the time elapsed
\* at that Done() is strictly greater than d, and invokes nothing when the
\* elapsed time is less than or equal to d.
C2_SynchronousDecision ==
  (~sw.nil /\ sw.d > 0 /\ reqH \notin WithTimedOut) =>
     /\ CallsOf("TimedOut") = {}
     /\ \A i \in CallsOf("Completed") : calls[i].t = sw.started /\ calls[i].ctx = "caller"
     /\ \A k \in 1..doneCalls :
          Returned(k) =>
            Cardinality(CompletedBy(k)) = IF ElapsedAt(k) > sw.d THEN 1 ELSE 0

C2_Witness ==
  /\ ~sw.nil /\ sw.d > 0 /\ reqH = "completedOnly"
  /\ sw.started > 0
  /\ doneCalls = 2 /\ pc = "running"
  /\ ElapsedAt(1) = sw.d
  /\ ElapsedAt(2) > sw.d
  /\ CompletedBy(1) = {}
  /\ Cardinality(CompletedBy(2)) = 1

\* C3: for d > 0 and a handler with TimedOut, if Done() is called before d
\* elapses (the timer has not fired), neither TimedOut nor Completed is
\* ever invoked for that Stopwatch, in that Done() or at any later time.
C3_EarlyDoneIsSilentForever ==
  (~sw.nil /\ sw.t = "timer" /\ sw.d > 0 /\ doneCalls >= 1
     /\ ElapsedAt(1) < sw.d /\ ~dones[1].fired) =>
       calls = << >>

\* C4: for d > 0 and a handler with TimedOut, when Done() is withheld until
\* after the timer has fired, TimedOut is invoked exactly once, by the
\* timer, with the start timestamp, and the Done() call invokes Completed
\* exactly once.
C4_LateDone ==
  (~sw.nil /\ sw.t = "timer" /\ sw.d > 0 /\ timer = "fired"
     /\ (doneCalls = 0 \/ dones[1].fired)) =>
     /\ Cardinality(CallsOf("TimedOut")) <= 1
     /\ (cb \in {"inTimedOut", "returned"} <=> Cardinality(CallsOf("TimedOut")) = 1)
     /\ \A i \in CallsOf("TimedOut") : calls[i].t = sw.started /\ calls[i].ctx = "timer"
     /\ (doneCalls = 0 => CallsOf("Completed") = {})
     /\ (doneCalls >= 1 /\ Returned(1)) =>
          /\ Cardinality(CompletedBy(1)) = 1
          /\ \A i \in CompletedBy(1) : calls[i].t = sw.started /\ calls[i].ctx = "caller"
     /\ (doneCalls = 1) => Cardinality(CallsOf("Completed")) <= 1

C4_Witness ==
  /\ ~sw.nil /\ sw.t = "timer" /\ sw.d > 0 /\ timer = "fired"
  /\ sw.started > 0
  /\ doneCalls = 1 /\ pc = "running" /\ dones[1].fired
  /\ cb = "returned"
  /\ Len(calls) = 2
  /\ calls[1].m = "TimedOut" /\ calls[2].m = "Completed"

\* C5: Done() is idempotent: for any Stopwatch and any number of Done()
\* calls, Completed is delivered at most once in total.
C5_CompletedAtMostOnce ==
  Cardinality(CallsOf("Completed")) <= 1

\* C6: every invocation of Completed happens at a time when the deadline d
\* has already elapsed since the Stopwatch's start timestamp.
C6_CompletedOnlyAfterDeadline ==
  \A i \in CallsOf("Completed") : calls[i].at - sw.started >= sw.d

\* C7: the path without timer and the path with timer make the same
\* decision: on the path with timer the first Done() invokes Completed if
\* and only if the elapsed time at Done() exceeds d.
C7_SameDecision ==
  (~sw.nil /\ sw.t = "timer" /\ sw.d > 0 /\ doneCalls >= 1 /\ Returned(1)) =>
     (CompletedBy(1) # {} <=> ElapsedAt(1) > sw.d)

\* C7 (amended): on the path without timer the first Done() invokes
\* Completed if and only if the elapsed time exceeds d; on the path with
\* timer it does so if and only if the timer has fired before Done() stops
\* it, which happens only once the elapsed time is at least d.  So the two
\* paths agree whenever the elapsed time is below d.
C7_DecisionPerPath ==
  (~sw.nil /\ sw.d > 0 /\ doneCalls >= 1 /\ Returned(1)) =>
     /\ sw.t = "nil"   => (CompletedBy(1) # {} <=> ElapsedAt(1) > sw.d)
     /\ sw.t = "timer" => /\ (CompletedBy(1) # {} <=> dones[1].fired)
                          /\ (dones[1].fired => ElapsedAt(1) >= sw.d)
                          /\ (ElapsedAt(1) < sw.d => CompletedBy(1) = {})

C7_Witness ==
  /\ ~sw.nil /\ sw.t = "timer" /\ sw.d > 0
  /\ doneCalls = 1 /\ pc = "running"
  /\ dones[1].fired
  /\ ElapsedAt(1) = sw.d
  /\ CompletedBy(1) # {}

\* C8: no ordering is imposed between TimedOut and Completed: once the
\* timer has fired, a Done() that has invoked Completed and returned leaves
\* the TimedOut callback of the same Stopwatch still to be delivered.
C8_TimedOutMayFollowCompleted ==
  (timer = "fired" /\ cb = "spawned" /\ doneCalls >= 1 /\ Returned(1)
     /\ CompletedBy(1) # {}) =>
       ENABLED TimedOutCall

C8_Witness ==
  /\ timer = "fired"
  /\ pc = "running"
  /\ \E i, j \in 1..Len(calls) :
       /\ i < j
       /\ calls[i].m = "Completed"
       /\ calls[j].m = "TimedOut"
       /\ calls[j].at > calls[i].at

\* C9: Deadline with d # 0 schedules exactly one one-shot timer when the
\* handler has TimedOut and none otherwise; a handler without TimedOut
\* never has TimedOut invoked; no Deadline call schedules more than one
\* callback.
C9_CapabilityDetection ==
  /\ timersScheduled <= 1
  /\ Cardinality(CallsOf("TimedOut")) <= 1
  /\ Constructed =>
       timersScheduled = IF reqD # 0 /\ reqH \in WithTimedOut THEN 1 ELSE 0
  /\ (pc # "start" /\ reqH \notin WithTimedOut) =>
       /\ CallsOf("TimedOut") = {}
       /\ timer = "none"
       /\ cb = "none"
       /\ sw.t = "nil"

C9_Witness ==
  /\ Constructed
  /\ reqD # 0 /\ reqH \in WithTimedOut
  /\ timersScheduled = 1
  /\ sw.t = "timer"
  /\ cb = "returned"
  /\ Cardinality(CallsOf("TimedOut")) = 1

\* C10: a handler built with HandleFunc(f) has only Completed: Deadline
\* with d > 0 schedules no timer, a Done() made after more than d has
\* elapsed runs f exactly once with the start timestamp, and a Done() made
\* before d has elapsed does not run f.
C10_HandleFunc ==
  (pc # "start" /\ reqH = "funcHandler" /\ reqD > 0) =>
     /\ timersScheduled = 0
     /\ sw.t = "nil"
     /\ Len(effects) = Cardinality(CallsOf("Completed"))
     /\ \A e \in 1..Len(effects) : effects[e] = [what |-> "f", t |-> sw.started]
     /\ \A k \in 1..doneCalls :
          Returned(k) =>
            Cardinality(CompletedBy(k)) = IF ElapsedAt(k) > sw.d THEN 1 ELSE 0
     /\ (doneCalls = 1 /\ pc = "running") =>
          Len(effects) = IF ElapsedAt(1) > sw.d THEN 1 ELSE 0

C10_Witness ==
  /\ reqH = "funcHandler" /\ reqD > 0
  /\ sw.started > 0
  /\ doneCalls = 1 /\ pc = "running"
  /\ ElapsedAt(1) > sw.d
  /\ effects = << [what |-> "f", t |-> sw.started] >>

\* the log lines with the given prefix
Lines(prefix) == {e \in 1..Len(effects) : effects[e].what = prefix}

\* C11: a Stopwatch made by DeadlineLog never logs "Taking too long: ",
\* however long Done() is withheld, and logs "Finally finished: " only from
\* Done(); one made by DeadlineLogWarn with d > 0 logs "Taking too long: "
\* when the timer fires before Done() and "Finally finished: " from the
\* Done() that follows.
C11_LogLines ==
  /\ (pc # "start" /\ reqH = DeadlineLogHandler) =>
       /\ Lines("Taking too long: ") = {}
       /\ CallsOf("TimedOut") = {}
       /\ Cardinality(Lines("Finally finished: ")) = Cardinality(CallsOf("Completed"))
       /\ \A i \in CallsOf("Completed") : calls[i].ctx = "caller" /\ calls[i].done >= 1
       /\ (doneCalls = 0 => effects = << >>)
  /\ (pc # "start" /\ reqH = DeadlineLogWarnHandler /\ reqD > 0) =>
       /\ Cardinality(Lines("Taking too long: ")) = Cardinality(CallsOf("TimedOut"))
       /\ Cardinality(Lines("Finally finished: ")) = Cardinality(CallsOf("Completed"))
       /\ (cb \in {"inTimedOut", "returned"} <=>
             Cardinality(Lines("Taking too long: ")) = 1)
       /\ (doneCalls >= 1 /\ dones[1].fired /\ Returned(1)) =>
             /\ CompletedBy(1) # {}
             /\ Lines("Finally finished: ") # {}
       /\ \A e \in 1..Len(effects) : effects[e].t = sw.started

C11_Witness ==
  /\ reqH = "logWarningHandler" /\ reqD > 0
  /\ doneCalls = 1 /\ pc = "running" /\ dones[1].fired
  /\ effects = << [what |-> "Taking too long: ", t |-> sw.started],
                  [what |-> "Finally finished: ", t |-> sw.started] >>

\* C12: with a single Done() call on a Stopwatch with timer, the outcome is
\* one of two: the stop succeeded and neither TimedOut nor Completed is
\* invoked, or the stop failed, Completed is invoked exactly once and
\* TimedOut exactly once (it is delivered, or its goroutine has been
\* started and can still deliver it).
C12_TwoOutcomes ==
  (~sw.nil /\ sw.t = "timer" /\ doneCalls = 1 /\ Returned(1)) =>
     \/ /\ ~dones[1].fired
        /\ timer = "stopped"
        /\ cb = "none"
        /\ calls = << >>
     \/ /\ dones[1].fired
        /\ timer = "fired"
        /\ Cardinality(CallsOf("Completed")) = 1
        /\ Cardinality(CallsOf("TimedOut")) <= 1
        /\ (cb # "spawned" => Cardinality(CallsOf("TimedOut")) = 1)
        /\ (cb = "spawned" => CallsOf("TimedOut") = {} /\ ENABLED TimedOutCall)

C12_Witness ==
  /\ ~sw.nil /\ sw.t = "timer" /\ doneCalls = 1 /\ pc = "running"
  /\ dones[1].fired
  /\ cb = "returned"
  /\ Len(calls) = 2
  /\ calls[1].m = "Completed" /\ calls[2].m = "TimedOut"

\* the Done() calls whose Stop() stopped the timer
SuccessfulStops == {k \in 1..doneCalls : sw.t = "timer" /\ ~dones[k].complete}

\* C13 (state part): a Stopwatch with timer is armed until exactly one of
\* the two resolutions has happened: the timer fired or one Done() stopped it
C13_OneResolution ==
  (~sw.nil /\ sw.t = "timer") =>
     /\ Cardinality(SuccessfulStops) + (IF cb # "none" THEN 1 ELSE 0)
          = IF timer = "pending" THEN 0 ELSE 1
     /\ (timer = "fired" <=> cb # "none")
     /\ (timer = "stopped" <=> SuccessfulStops # {})

\* C13 (step part): once resolved, the timer never changes state again
C13_StaysResolved ==
  /\ timer \in {"fired", "stopped"} => timer' = timer
  /\ timer = "pending" => timer' \in {"pending", "fired", "stopped"}
  /\ cb # "none" => cb' # "none"

\* C13: a Stopwatch with timer is resolved exactly once: it leaves the
\* armed state by the timer firing or by a successful stop in Done(), never
\* by both, and once resolved it is never armed again, whatever further
\* Done() calls are made.
C13_ResolvedOnce == []C13_OneResolution /\ [][C13_StaysResolved]_vars

C13_Witness ==
  /\ ~sw.nil /\ sw.t = "timer"
  /\ timer = "stopped"
  /\ doneCalls = 3 /\ pc = "running"
  /\ SuccessfulStops = {1}
  /\ now > dones[1].at

\* C14 (state part): every notification carries the Stopwatch's start
\* timestamp, and the Stopwatch holds the arguments of Deadline
C14_CarriesStart ==
  /\ \A i \in 1..Len(calls) : calls[i].t = sw.started /\ calls[i].t <= calls[i].at
  /\ ~sw.nil => (sw.d = reqD /\ sw.handler = reqH)

\* C14 (step part): started is the clock at construction, and started, d
\* and handler are left alone by every later step
C14_FieldsFrozen ==
  /\ (pc = "start" /\ pc' # "start" /\ ~sw'.nil) => sw'.started = now
  /\ pc # "start" =>
       /\ sw'.started = sw.started
       /\ sw'.d = sw.d
       /\ sw'.handler = sw.handler
       /\ sw'.nil = sw.nil

\* C14: every TimedOut and every Completed carries the start timestamp
\* captured when Deadline built the Stopwatch, never the time of firing or
\* of Done(), and started, d and handler are unchanged by the timer firing
\* and by any number of Done() calls.
C14_StartTimestamp == []C14_CarriesStart /\ [][C14_FieldsFrozen]_vars

C14_Witness ==
  /\ ~sw.nil /\ sw.started > 0
  /\ doneCalls >= 2
  /\ \E i, j \in 1..Len(calls) :
       /\ calls[i].m = "TimedOut"  /\ calls[i].at > sw.started
       /\ calls[j].m = "Completed" /\ calls[j].at > calls[i].at

\* C15 (state part): Completed comes from a Done() call on the caller's
\* context, TimedOut from the timer's goroutine
C15_Contexts ==
  /\ \A i \in CallsOf("Completed") :
       calls[i].ctx = "caller" /\ calls[i].done \in 1..doneCalls
  /\ \A i \in CallsOf("TimedOut") : calls[i].ctx = "timer" /\ calls[i].done = 0
  /\ doneCalls = 0 => CallsOf("Completed") = {}

\* C15 (step part): a step delivers at most one notification; Completed is
\* delivered by the caller inside Done(), TimedOut by the callback goroutine
C15_DeliveredBy ==
  calls' # calls =>
    /\ Len(calls') = Len(calls) + 1
    /\ \A i \in 1..Len(calls) : calls'[i] = calls[i]
    /\ LET c == calls'[Len(calls')] IN
         /\ c.m = "Completed" =>
              (pc = "completing" /\ pc' = "running" /\ cb' = cb /\ c.ctx = "caller")
         /\ c.m = "TimedOut" =>
              (cb = "spawned" /\ cb' = "inTimedOut" /\ pc' = pc
                 /\ doneCalls' = doneCalls /\ c.ctx = "timer")

\* C15: Completed is invoked only inside a Done() call on the caller's
\* context and never by the timer callback, so a Stopwatch on which Done()
\* is never called never delivers Completed; TimedOut is invoked only by
\* the timer callback and never from Done().
C15_FixedContexts == []C15_Contexts /\ [][C15_DeliveredBy]_vars

C15_Witness ==
  /\ ~sw.nil /\ sw.t = "timer"
  /\ doneCalls = 0
  /\ cb = "returned"
  /\ now > when
  /\ Len(calls) = 1 /\ calls[1].m = "TimedOut"

\* C16: for d > 0 and a handler with TimedOut, when Done() is not called,
\* TimedOut is eventually invoked, before any Done(): from construction
\* on, either the caller calls Done() or TimedOut is delivered while no
\* Done() has been called.
C16_EarlyWarning ==
  (Constructed /\ reqD > 0 /\ reqH \in WithTimedOut /\ doneCalls = 0)
    ~> (doneCalls > 0 \/ (doneCalls = 0 /\ CallsOf("TimedOut") # {}))

C16_Witness ==
  /\ Constructed /\ reqD > 0 /\ reqH \in WithTimedOut
  /\ doneCalls = 0
  /\ cb = "inTimedOut"
  /\ Len(calls) = 1 /\ calls[1].m = "TimedOut" /\ calls[1].at >= sw.started + sw.d

\* C17: Done() never waits for the timer's goroutine: a Done() that has
\* decided to call Completed returns, also on a Stopwatch whose timer has
\* fired and whose TimedOut callback has not started, is running or never
\* returns.
C17_DoneTerminates ==
  (pc = "completing") ~> (pc = "running")

C17_Witness ==
  /\ ~sw.nil /\ sw.t = "timer" /\ timer = "fired"
  /\ doneCalls = 1 /\ pc = "running" /\ dones[1].fired
  /\ cb = "inTimedOut"
  /\ CompletedBy(1) # {}

\* C18: only d == 0 disables tracking: every other d, negative ones
\* included, gives a non-nil Stopwatch; for negative d and a handler
\* without TimedOut the first Done() always invokes Completed; for negative
\* d and a handler with TimedOut the timer is due at once.
C18_OnlyZeroDisables ==
  /\ (pc # "start" /\ reqD # 0) => ~sw.nil
  /\ (pc # "start" /\ reqD = 0) => sw.nil
  /\ (pc # "start" /\ reqD < 0 /\ reqH \notin WithTimedOut) =>
       /\ sw.t = "nil"
       /\ \A k \in 1..doneCalls : ElapsedAt(k) >= 0
       /\ (doneCalls >= 1 /\ Returned(1)) => Cardinality(CompletedBy(1)) = 1
  /\ (Constructed /\ reqD < 0 /\ reqH \in WithTimedOut) =>
       /\ sw.t = "timer"
       /\ when <= now
       /\ (timer = "pending" => ENABLED TimerFire)

C18_Witness ==
  /\ reqD < 0 /\ reqH = "completedOnly"
  /\ ~sw.nil
  /\ doneCalls = 1 /\ pc = "running"
  /\ ElapsedAt(1) = 0
  /\ Cardinality(CompletedBy(1)) = 1

====
